---- MODULE Spec2Model ----
(***************************************************************************)
(* Model of src/main.py: the Aicade game notifier bot.                     *)
(*                                                                         *)
(* The bot polls a catalog API once a minute (a discord.ext.tasks loop),   *)
(* detects the games whose URL is not in seen_games.json, sends a role     *)
(* mention and one embed per new game to a channel, and writes the seen    *)
(* set back to the file.                                                   *)
(*                                                                         *)
(* Steps are the atomic blocks of the asyncio coroutines: a step runs from *)
(* one await to the next, as the event loop runs them.                     *)
(***************************************************************************)
EXTENDS Integers, Sequences, FiniteSets, TLC

VARIABLES
    env,            \* the environment variables read at lines 18-20
    bot,            \* the bot thread: "init", "refused", "connecting", "ready"
    task,           \* the tasks.Loop of check_for_new_games
    run,            \* the locals of each in-flight check_for_new_games call
    cmd,            \* the manual_check command coroutine
    file,           \* seen_games.json on disk
    cyc,            \* history: what the call in progress fetched and sent
    announced,      \* history: URLs an embed was delivered for since the
                    \* file was last left damaged
    twice,          \* history: URLs a second embed was delivered for
    retry,          \* history: URLs whose embed failed, until fetched again
    prev,           \* history: what the last completed call fetched
    track,          \* which of the history variables this behaviour records
    api_response,   \* the response handed to scrape_aicade_games (SpecScrape)
    scraped         \* what scrape_aicade_games made of it (SpecScrape)

vars == <<env, bot, task, run, cmd, file, cyc, announced, twice, retry, prev,
          track, api_response, scraped>>

-----------------------------------------------------------------------------
(* Bounds of the model.                                                    *)

\* publications in the catalog, and the longest list one response carries
MaxGames == 2
\* entries of the list in a response handed to scrape_aicade_games alone
MaxEntries == 2

-----------------------------------------------------------------------------
(* JSON values as Python sees them after response.json().                  *)

None == [t |-> "null"]
JStr(s) == [t |-> "str", v |-> s]
JNum(n) == [t |-> "num", v |-> n]
JList(q) == [t |-> "list", v |-> q]
JObj(f) == [t |-> "obj", v |-> f]

\* The strings of the model that have "data" as a substring.
StringsWithData == {"data", "data:image/png;base64,AAAA"}

\* Whether Python can evaluate `k in x` at all: a dict, a list or a str.
\* On None or a number it raises TypeError.
PyContainer(x) == x.t \in {"obj", "list", "str"}

\* `k in x` for a string k: a key of a dict, an element of a list, a
\* substring of a str.
PyIn(k, x) ==
    CASE x.t = "obj" -> k \in DOMAIN x.v
      [] x.t = "list" -> \E i \in 1..Len(x.v) : x.v[i].t = "str" /\ x.v[i].v = k
      [] x.t = "str" -> x.v \in StringsWithData
      [] OTHER -> FALSE

\* dict.get(k): the value, or None when the key is absent.
PyGet(d, k) == IF k \in DOMAIN d.v THEN d.v[k] ELSE None

\* Python truthiness of a JSON value.
Truthy(x) ==
    CASE x.t = "null" -> FALSE
      [] x.t = "str" -> x.v # ""
      [] x.t = "num" -> x.v # 0
      [] x.t = "list" -> x.v # <<>>
      [] x.t = "obj" -> DOMAIN x.v # {}
      [] OTHER -> TRUE

\* str() of a number, as the f-string of line 89 formats it.
NumStr == <<"1", "2", "3", "4", "5", "6", "7", "8", "9">>

\* What f"{publish_id}" yields for the values of the model.
PyStr(x) ==
    CASE x.t = "str" -> x.v
      [] x.t = "num" -> NumStr[x.v]
      [] OTHER -> "?"

-----------------------------------------------------------------------------
(* scrape_aicade_games, lines 60-92.                                       *)

\* line 89: f"https://play.aicade.io/{publish_id}"
full_url(publish_id) == <<"https://play.aicade.io/", PyStr(publish_id)>>

Returned(games) == [raised |-> "none", games |-> games]
Raised(exc) == [raised |-> exc, games |-> <<>>]

\* lines 79-90: the loop over game_list, from entry i on, with the games
\* appended so far.
RECURSIVE ScanGames(_, _, _)
ScanGames(game_list, i, games) ==
    IF i > Len(game_list) THEN Returned(games)
    ELSE LET item == game_list[i] IN
        IF ~PyContainer(item) THEN Raised("TypeError")
        ELSE IF ~PyIn("data", item) THEN ScanGames(game_list, i + 1, games)
        ELSE IF item.t # "obj" THEN Raised("TypeError")
        ELSE LET game_data == item.v["data"] IN
            IF game_data.t # "obj" THEN Raised("AttributeError")
            ELSE LET title == PyGet(game_data, "game_title")
                     publish_id == PyGet(game_data, "publish_id")
                     cover_image_url == PyGet(game_data, "cover_image")
                 IN IF Truthy(title) /\ Truthy(publish_id)
                    THEN ScanGames(game_list, i + 1,
                            Append(games, [title |-> title,
                                           url |-> full_url(publish_id),
                                           cover_image |-> cover_image_url]))
                    ELSE ScanGames(game_list, i + 1, games)

\* lines 73-77: the check of the path data.data, then the loop.
ScrapeBody(api_data) ==
    IF ~PyContainer(api_data) THEN Raised("TypeError")
    ELSE IF ~PyIn("data", api_data) THEN Returned(<<>>)
    ELSE IF api_data.t # "obj" THEN Raised("TypeError")
    ELSE LET inner == api_data.v["data"] IN
        IF ~PyContainer(inner) THEN Raised("TypeError")
        ELSE IF ~PyIn("data", inner) THEN Returned(<<>>)
        ELSE IF inner.t # "obj" THEN Raised("TypeError")
        ELSE IF inner.v["data"].t # "list" THEN Returned(<<>>)
        ELSE ScanGames(inner.v["data"].v, 1, <<>>)

\* A mutant of the handler of line 66: the RequestException is not caught.
ScrapeFetchErrorPropagates(resp) ==
    IF resp.status = "ok" THEN ScrapeBody(resp.body) ELSE Raised(resp.status)

\* lines 62-71: a RequestException (connection error, timeout, the HTTPError
\* of raise_for_status) or a JSONDecodeError is logged and [] returned;
\* whatever the code after line 72 raises propagates to the caller.
ScrapeFetch(resp) ==
    IF resp.status = "ok" THEN ScrapeBody(resp.body) ELSE Returned(<<>>)

scrape_aicade_games(resp) == ScrapeFetch(resp)

-----------------------------------------------------------------------------
(* The catalog the model serves.                                           *)

Pids == 1..MaxGames
PublishId == <<"p1", "p2", "p3", "p4", "p5">>
GameTitle == <<"Game 1", "Game 2", "Game 3", "Game 4", "Game 5">>

\* The cover_image of publication i: a link, an inline-data URI, the token
\* "null", no image, an empty string.
CoverImage(i) ==
    CASE i = 1 -> JStr("https://cdn.aicade.io/p1.png")
      [] i = 2 -> JStr("data:image/png;base64,AAAA")
      [] i = 3 -> JStr("null")
      [] i = 4 -> None
      [] OTHER -> JStr("")

\* The gif_url of publication i: a link, the token "null", a link, none.
GifUrl(i) ==
    CASE i = 1 -> JStr("https://cdn.aicade.io/p1.gif")
      [] i = 2 -> JStr("null")
      [] i = 3 -> JStr("https://cdn.aicade.io/p3.gif")
      [] OTHER -> None

\* One well-formed entry of data.data.
Entry(i) ==
    JObj([data |-> JObj([game_title |-> JStr(GameTitle[i]),
                         publish_id |-> JStr(PublishId[i]),
                         cover_image |-> CoverImage(i),
                         gif_url |-> GifUrl(i)])])

Url(i) == full_url(JStr(PublishId[i]))
Urls == {Url(i) : i \in Pids}

\* The listings of a page: publications newest first, each listed once
\* (publish_id is the key of a publication).
Listings ==
    UNION {{q \in [1..n -> Pids] : \A i, j \in 1..n : q[i] = q[j] => i = j}
           : n \in 0..MaxGames}

CatalogBody(q) ==
    JObj([data |-> JObj([data |-> JList([i \in 1..Len(q) |-> Entry(q[i])])])])

\* Bodies that are JSON but not the expected shape.
OddBodies ==
    {None,
     JObj([status |-> JStr("error")]),
     JObj([data |-> JObj([data |-> None])]),
     JObj([data |-> JObj([data |-> JList(<<JNum(7)>>)])])}

\* What requests.get + raise_for_status + response.json() can produce.
Responses ==
    {[status |-> "RequestException"], [status |-> "JSONDecodeError"]}
    \cup {[status |-> "ok", body |-> CatalogBody(q)] : q \in Listings}
    \cup {[status |-> "ok", body |-> b] : b \in OddBodies}

-----------------------------------------------------------------------------
(* seen_games.json: load_seen_games (39-50), save_seen_games (52-58).      *)

Absent == [st |-> "absent", urls |-> {}]
Partial == [st |-> "partial", urls |-> {}]
Stored(s) == [st |-> "ok", urls |-> s]

\* The URLs a reader finds in the file.
FileUrls(f) == IF f.st = "ok" THEN f.urls ELSE {}

\* lines 39-50. No file: set(). open() or read raising IOError, or a file
\* that is not JSON (truncated, half written): logged, set().
load_seen_games(f, ioerror) ==
    IF f.st = "absent" THEN {}
    ELSE IF ioerror THEN {}
    ELSE IF f.st = "partial" THEN {}
    ELSE f.urls

SaveOutcomes == {"ok", "IOError_open", "IOError_write", "killed"}

\* lines 52-58. open(.., 'w') truncates the file, json.dump then writes it.
\* "IOError_open": open raises, the file is untouched. "IOError_write": the
\* dump raises after the truncation. "killed": the process dies between the
\* truncation and the end of the dump. The IOErrors are logged, not raised.
save_seen_games(game_urls_set, f, outcome) ==
    CASE outcome = "ok" -> Stored(game_urls_set)
      [] outcome = "IOError_open" -> f
      [] OTHER -> Partial

-----------------------------------------------------------------------------
(* check_for_new_games, lines 103-154.                                     *)

Reverse(s) == [i \in 1..Len(s) |-> s[Len(s) + 1 - i]]

UrlsOf(games) == [i \in 1..Len(games) |-> games[i].url]
Range(q) == {q[i] : i \in 1..Len(q)}

\* A mutant of line 119: nothing is filtered out.
DetectAll(current_games, seen_games_urls) == Reverse(current_games)

\* A mutant of line 119: the fetched order kept.
DetectFetchedOrder(current_games, seen_games_urls) ==
    SelectSeq(current_games, LAMBDA game : game.url \notin seen_games_urls)

\* line 119: new_games_found
Detect(current_games, seen_games_urls) ==
    SelectSeq(Reverse(current_games),
              LAMBDA game : game.url \notin seen_games_urls)

\* discord.errors: Forbidden is a subclass of HTTPException.
SendOutcomes == {"ok", "Forbidden", "HTTPException"}

\* A mutant of lines 146-150: the URL is added whether or not send raised.
AddAlways(seen_games_urls, url, outcome) == seen_games_urls \cup {url}

\* lines 146-150: seen_games_urls after the send of one embed. The except
\* clause of line 149 catches Forbidden too, a subclass of HTTPException.
AfterSend(seen_games_urls, url, outcome) ==
    IF outcome = "ok" THEN seen_games_urls \cup {url} ELSE seen_games_urls

\* line 144: the logo the embed shows as its thumbnail.
Placeholder ==
    [kind |-> "thumbnail",
     url |-> JStr("https://play.aicade.io/assets/logo-914387a0.png")]

\* lines 141-144: the picture of the embed of one game. game.get and
\* game[...] read the cover_image that line 90 stored; nothing else of the
\* entry reaches the embed.
EmbedImage(game) ==
    IF Truthy(game.cover_image) /\ game.cover_image # JStr("null")
    THEN [kind |-> "image", url |-> game.cover_image]
    ELSE Placeholder

\* A mutant of lines 149-150: the loop is left when a send raises.
StopOnFailure(game, new_games_found, outcome) ==
    game = Len(new_games_found) \/ outcome # "ok"

\* line 132: the for loop is over after the last of new_games_found,
\* whatever the sends did.
LoopOver(game, new_games_found, outcome) == game = Len(new_games_found)

\* A mutant of line 168: the coroutine is called directly.
LoopNowInvokes == "invoke"

\* line 168: check_for_new_games.now(). discord.ext.tasks.Loop has no
\* attribute `now` (it has start, stop, cancel, restart, __call__, ...):
\* the lookup raises AttributeError before any coroutine is made.
LoopNow == "AttributeError"

Owners == {"timer", "manual"}

Idle == [pc |-> "none", seen_games_urls |-> {}, new_games_found |-> <<>>,
         game |-> 0]

NoCmd == [st |-> "none", busy |-> FALSE]

\* The record of one call: who called, how far it got, what the fetch
\* gave, the file's URLs when it began, the set load_seen_games returned,
\* the new games, the outcome of the mention send, the embed sends in
\* order, every send attempted in order, the outcome of save_seen_games
\* and the set it was handed.
NoCycle ==
    [trigger |-> "none", status |-> "none", fetch |-> "none", games |-> <<>>,
     persisted |-> {}, loaded |-> {}, detected |-> <<>>, mention |-> "none",
     sends |-> <<>>, log |-> <<>>, save |-> "none", saved |-> {}]

\* The embed whose send returned or raised in this step, if one did.
JustSent ==
    IF Len(cyc'.sends) = Len(cyc.sends) + 1
    THEN {cyc'.sends[Len(cyc'.sends)]} ELSE {}
Delivered == {m.url : m \in {x \in JustSent : x.ok}}
Failed == {m.url : m \in {x \in JustSent : ~x.ok}}

\* A call of check_for_new_games begins in this step; it ends or is lost.
Begins == cyc.status = "none" /\ cyc'.status # "none"
Ends == cyc.status # "none" /\ cyc'.status = "none"

\* The history variables, each recorded in the behaviours that track it and
\* left alone in the others. announced, twice: the URLs with one, with two
\* embeds delivered. retry.pending: the URLs that were not in the file when
\* a call began and whose embed then failed, until a call fetches them
\* again; retry.owed: those the call in progress has fetched. prev: the
\* URLs the last call fetched, when it ran to its end.
History ==
    /\ track' = track
    /\ announced' = IF track # "delivered" THEN announced
                    ELSE IF file' = Partial THEN {}
                    ELSE announced \cup Delivered
    /\ twice' = IF track = "delivered"
                THEN twice \cup (Delivered \cap announced) ELSE twice
    /\ retry' = IF track # "retry" THEN retry
                ELSE IF Begins
                THEN [pending |-> retry.pending \ Range(cyc'.games),
                      owed |-> retry.pending \cap Range(cyc'.games)]
                ELSE [pending |-> (retry.pending \ Delivered)
                                  \cup (Failed \ cyc.persisted),
                      owed |-> IF Ends THEN {} ELSE retry.owed]
    /\ prev' = IF track # "prev" THEN prev
               ELSE IF Ends
               THEN [valid |-> cyc.status = "done" /\ cyc.fetch = "ok",
                     games |-> IF cyc.status = "done" /\ cyc.fetch = "ok"
                               THEN Range(cyc.games) ELSE {}]
               ELSE IF cyc'.status \in {"raised", "killed"}
               THEN [valid |-> FALSE, games |-> {}]
               ELSE prev

\* Where a call of check_for_new_games by owner o leaves its caller:
\* "awaiting" (suspended at a send), "returned" or "raised".
\* The timer's caller is Loop._loop: it ends the task on an exception that
\* is not one of its retried connection errors. The command's caller is
\* manual_check.
After(o, outcome) ==
    IF o = "timer"
    THEN /\ task' = (CASE outcome = "awaiting" -> "running"
                       [] outcome = "returned" -> "returned"
                       [] OTHER -> "failed")
         /\ cmd' = cmd
    ELSE /\ task' = task
         /\ cmd' = [st |-> (CASE outcome = "awaiting" -> "checking"
                               [] outcome = "returned" -> "reply2"
                               [] OTHER -> "failed"),
                     busy |-> IF cmd.st = "reply1" THEN run["timer"].pc # "none"
                              ELSE cmd.busy]

\* lines 106-123: from the call to the first await. channel is whether
\* bot.get_channel found the channel; ioerror whether reading the file
\* raises IOError.
check_begin(o, resp, channel, ioerror) ==
    LET current == IF channel THEN scrape_aicade_games(resp)
                   ELSE Returned(<<>>)
        current_games == current.games
        seen_games_urls == IF current_games = <<>> THEN {}
                           ELSE load_seen_games(file, ioerror)
        new_games_found == Detect(current_games, seen_games_urls)
        outcome == IF current.raised # "none" THEN "raised"
                   ELSE IF new_games_found = <<>> THEN "returned"
                   ELSE "awaiting"
    IN  /\ run' = [run EXCEPT ![o] =
                     IF outcome = "awaiting"
                     THEN [pc |-> "mention",
                           seen_games_urls |-> seen_games_urls,
                           new_games_found |-> new_games_found,
                           game |-> 0]
                     ELSE Idle]
        /\ After(o, outcome)
        /\ cyc' = [trigger |-> o,
                   status |-> (CASE outcome = "awaiting" -> "running"
                                 [] outcome = "returned" -> "done"
                                 [] OTHER -> "raised"),
                   fetch |-> IF channel THEN resp.status ELSE "none",
                   games |-> UrlsOf(current_games),
                   persisted |-> FileUrls(file),
                   loaded |-> seen_games_urls,
                   detected |-> UrlsOf(new_games_found),
                   mention |-> "none",
                   sends |-> <<>>,
                   log |-> <<>>,
                   save |-> "none",
                   saved |-> {}]
        /\ UNCHANGED <<env, bot, file, api_response, scraped>>
        /\ History

\* The timer of tasks.loop(minutes=1) fires: Loop._loop calls the coroutine
\* once the previous call has returned, never while it runs.
Tick(resp, channel, ioerror) ==
    /\ task = "sleeping"
    /\ check_begin("timer", resp, channel, ioerror)

\* Loop._loop after the coroutine returned: it sleeps to the next iteration.
LoopSleep ==
    /\ task = "returned"
    /\ task' = "sleeping"
    /\ cyc' = NoCycle
    /\ UNCHANGED <<env, bot, run, cmd, file, api_response, scraped>>
    /\ History

\* lines 124-131: the send of the role mention returns or raises.
MentionSend(o, outcome) ==
    /\ run[o].pc = "mention"
    /\ IF outcome = "Forbidden"
       THEN /\ run' = [run EXCEPT ![o] = Idle]
            /\ After(o, "returned")
            /\ cyc' = [cyc EXCEPT !.mention = outcome, !.status = "done",
                                  !.log = Append(@, "mention")]
       ELSE /\ run' = [run EXCEPT ![o].pc = "embed", ![o].game = 1]
            /\ After(o, "awaiting")
            /\ cyc' = [cyc EXCEPT !.mention = outcome,
                                  !.log = Append(@, "mention")]
    /\ UNCHANGED <<env, bot, file, api_response, scraped>>
    /\ History

\* The process is gone: every coroutine and every local with it. The host
\* starts it again, the module is loaded anew (lines 194-196).
ProcessLost ==
    /\ bot' = "init"
    /\ task' = "none"
    /\ run' = [o \in Owners |-> Idle]
    /\ cmd' = NoCmd

\* lines 132-152: the send of the embed of new_games_found[game] returns or
\* raises; after the last one the file is saved and the call returns.
EmbedSend(o, outcome, saved) ==
    /\ run[o].pc = "embed"
    /\ LET game == run[o].new_games_found[run[o].game]
           seen_games_urls == AfterSend(run[o].seen_games_urls, game.url, outcome)
           last == LoopOver(run[o].game, run[o].new_games_found, outcome)
           sent == Append(cyc.sends, [url |-> game.url, ok |-> outcome = "ok",
                                      image |-> EmbedImage(game)])
       IN  IF ~last
           THEN /\ saved = "ok"
                /\ run' = [run EXCEPT ![o].seen_games_urls = seen_games_urls,
                                      ![o].game = @ + 1]
                /\ cyc' = [cyc EXCEPT !.sends = sent,
                                      !.log = Append(@, "embed")]
                /\ UNCHANGED <<bot, task, cmd, file>>
           ELSE /\ file' = save_seen_games(seen_games_urls, file, saved)
                /\ cyc' = [cyc EXCEPT !.sends = sent,
                                      !.log = Append(@, "embed"),
                                      !.save = saved,
                                      !.saved = seen_games_urls,
                                      !.status = IF saved = "killed"
                                                 THEN "killed" ELSE "done"]
                /\ IF saved = "killed"
                   THEN ProcessLost
                   ELSE /\ run' = [run EXCEPT ![o] = Idle]
                        /\ After(o, "returned")
                        /\ bot' = bot
    /\ UNCHANGED <<env, api_response, scraped>>
    /\ History

-----------------------------------------------------------------------------
(* The bot: run_bot (179-190), on_ready (96-101), before_check (156-159),  *)
(* manual_check (163-169).                                                 *)

\* A mutant of lines 180-188: the loop is started with the bot, before the
\* gateway is ready, and goes straight to its iterations.
run_bot_starting_loop ==
    /\ bot = "init"
    /\ bot' = IF env.DISCORD_TOKEN /\ env.CHANNEL_ID /\ env.GAMER_ROLE_ID
              THEN "connecting" ELSE "refused"
    /\ task' = IF bot' = "connecting" THEN "sleeping" ELSE task
    /\ cyc' = NoCycle
    /\ UNCHANGED <<env, run, cmd, file, api_response, scraped>>
    /\ History

\* A mutant of line 180: only the token is required.
run_bot_token_only ==
    /\ bot = "init"
    /\ bot' = IF env.DISCORD_TOKEN THEN "connecting" ELSE "refused"
    /\ cyc' = NoCycle
    /\ UNCHANGED <<env, task, run, cmd, file, api_response, scraped>>
    /\ History

\* lines 180-188: with a variable missing the bot is not started.
run_bot ==
    /\ bot = "init"
    /\ bot' = IF env.DISCORD_TOKEN /\ env.CHANNEL_ID /\ env.GAMER_ROLE_ID
              THEN "connecting" ELSE "refused"
    /\ cyc' = NoCycle
    /\ UNCHANGED <<env, task, run, cmd, file, api_response, scraped>>
    /\ History

\* Loop.start(): a new task unless one is launched and not completed, in
\* which case it raises RuntimeError and nothing changes.
LoopStart(t) == IF t \in {"none", "failed"} THEN "before_loop" ELSE t

\* lines 96-101: the gateway reports READY, the first time or after a
\* session was lost; the event is dispatched and the handler starts the loop.
on_ready ==
    /\ bot \in {"connecting", "ready"}
    /\ bot' = "ready"
    /\ task' = LoopStart(task)
    /\ cyc' = IF task = "failed" THEN NoCycle ELSE cyc
    /\ UNCHANGED <<env, run, cmd, file, api_response, scraped>>
    /\ History

\* lines 156-159: wait_until_ready returns, the loop goes to its iterations.
before_check ==
    /\ task = "before_loop"
    /\ bot = "ready"
    /\ task' = "sleeping"
    /\ UNCHANGED <<env, bot, run, cmd, file, cyc, api_response, scraped>>
    /\ History

\* lines 163-167: an administrator sends the checknow command; the command
\* suspends at its first ctx.send.
manual_check ==
    /\ bot = "ready"
    /\ cmd.st \in {"none", "failed", "done"}
    /\ cmd' = [st |-> "reply1", busy |-> FALSE]
    /\ UNCHANGED <<env, bot, task, run, file, cyc, api_response, scraped>>
    /\ History

\* lines 167-169: a ctx.send of the command returns or raises. After the
\* first, line 168 runs; an exception ends the command (the library's
\* on_command_error logs it). busy records whether a call of the timer was
\* in progress when line 168 ran.
ManualReply(outcome, resp, channel, ioerror) ==
    /\ cmd.st \in {"reply1", "reply2"}
    /\ IF outcome # "ok"
       THEN /\ cmd' = [cmd EXCEPT !.st = "failed"]
            /\ UNCHANGED <<env, bot, task, run, file, cyc, api_response, scraped>>
            /\ History
       ELSE IF cmd.st = "reply2"
       THEN /\ cmd' = [cmd EXCEPT !.st = "done"]
            /\ UNCHANGED <<env, bot, task, run, file, cyc, api_response, scraped>>
            /\ History
       ELSE IF LoopNow = "invoke"
       THEN check_begin("manual", resp, channel, ioerror)
       ELSE /\ cmd' = [st |-> "failed", busy |-> run["timer"].pc # "none"]
            /\ UNCHANGED <<env, bot, task, run, file, cyc, api_response, scraped>>
            /\ History

\* The process is killed (a deploy, a crash of the host) and started again.
\* The file stays as it is.
Restart ==
    /\ bot \in {"connecting", "ready"}
    /\ ProcessLost
    /\ cyc' = NoCycle
    /\ UNCHANGED <<env, file, api_response, scraped>>
    /\ History

-----------------------------------------------------------------------------
(* The specification of the bot.                                           *)

Unused == [status |-> "unused"]
NoPrev == [valid |-> FALSE, games |-> {}]
NoRetry == [pending |-> {}, owed |-> {}]

\* The module has been loaded on a fresh host: no seen file yet.
InitTracking(history) ==
    /\ track = history
    /\ env \in [DISCORD_TOKEN : BOOLEAN, CHANNEL_ID : BOOLEAN,
                GAMER_ROLE_ID : BOOLEAN]
    /\ bot = "init"
    /\ task = "none"
    /\ run = [o \in Owners |-> Idle]
    /\ cmd = NoCmd
    /\ file = Absent
    /\ cyc = NoCycle
    /\ announced = {}
    /\ twice = {}
    /\ retry = NoRetry
    /\ prev = NoPrev
    /\ api_response = Unused
    /\ scraped = Unused

Next ==
    \/ run_bot
    \/ on_ready
    \/ before_check
    \/ \E resp \in Responses, channel \in BOOLEAN, ioerror \in BOOLEAN :
          Tick(resp, channel, ioerror)
    \/ LoopSleep
    \/ \E o \in Owners, outcome \in SendOutcomes : MentionSend(o, outcome)
    \/ \E o \in Owners, outcome \in SendOutcomes, saved \in SaveOutcomes :
          EmbedSend(o, outcome, saved)
    \/ manual_check
    \/ \E outcome \in SendOutcomes,
          resp \in (IF LoopNow = "invoke" THEN Responses ELSE {Unused}),
          channel \in (IF LoopNow = "invoke" THEN BOOLEAN ELSE {TRUE}),
          ioerror \in (IF LoopNow = "invoke" THEN BOOLEAN ELSE {FALSE}) :
          ManualReply(outcome, resp, channel, ioerror)
    \/ Restart

\* The bot, and the bot with one of the histories recorded.
Init == InitTracking("none")
Spec == Init /\ [][Next]_vars

InitDelivered == InitTracking("delivered")
SpecDelivered == InitDelivered /\ [][Next]_vars

InitRetry == InitTracking("retry")
SpecRetry == InitRetry /\ [][Next]_vars

InitPrev == InitTracking("prev")
SpecPrev == InitPrev /\ [][Next]_vars

-----------------------------------------------------------------------------
(* The bot in an environment that settles: from some moment on the process *)
(* stays up, the channel is found, the fetch succeeds with publication 1   *)
(* listed, and every send succeeds. Reading and writing the file may still *)
(* fail. track tells whether the environment has settled.                  *)

\* The responses that list publication 1.
Staying ==
    {[status |-> "ok", body |-> CatalogBody(q)] :
        q \in {l \in Listings : \E i \in 1..Len(l) : l[i] = 1}}

Settle ==
    /\ track = "unsettled"
    /\ track' = "settled"
    /\ UNCHANGED <<env, bot, task, run, cmd, file, cyc, announced, twice,
                   retry, prev, api_response, scraped>>

LiveTick(resp, channel, ioerror) ==
    /\ track = "settled" => channel /\ resp \in Staying
    /\ Tick(resp, channel, ioerror)

LiveMentionSend(o, outcome) ==
    /\ track = "settled" => outcome = "ok"
    /\ MentionSend(o, outcome)

LiveEmbedSend(o, outcome, saved) ==
    /\ track = "settled" => outcome = "ok" /\ saved # "killed"
    /\ EmbedSend(o, outcome, saved)

LiveRestart ==
    /\ track = "unsettled"
    /\ Restart

NextLive ==
    \/ run_bot
    \/ on_ready
    \/ before_check
    \/ \E resp \in Responses, channel \in BOOLEAN, ioerror \in BOOLEAN :
          LiveTick(resp, channel, ioerror)
    \/ LoopSleep
    \/ \E o \in Owners, outcome \in SendOutcomes : LiveMentionSend(o, outcome)
    \/ \E o \in Owners, outcome \in SendOutcomes, saved \in SaveOutcomes :
          LiveEmbedSend(o, outcome, saved)
    \/ manual_check
    \/ \E outcome \in SendOutcomes,
          resp \in (IF LoopNow = "invoke" THEN Responses ELSE {Unused}),
          channel \in (IF LoopNow = "invoke" THEN BOOLEAN ELSE {TRUE}),
          ioerror \in (IF LoopNow = "invoke" THEN BOOLEAN ELSE {FALSE}) :
          ManualReply(outcome, resp, channel, ioerror)
    \/ LiveRestart
    \/ Settle

\* The event loop runs every coroutine that can run, and the timer of the
\* loop fires: tasks.loop sleeps one minute between iterations, each send
\* returns or raises.
Fairness ==
    /\ WF_vars(before_check)
    /\ WF_vars(\E resp \in Responses, channel \in BOOLEAN, ioerror \in BOOLEAN :
                  LiveTick(resp, channel, ioerror))
    /\ WF_vars(LoopSleep)
    /\ WF_vars(\E o \in Owners, outcome \in SendOutcomes :
                  LiveMentionSend(o, outcome))
    /\ WF_vars(\E o \in Owners, outcome \in SendOutcomes, saved \in SaveOutcomes :
                  LiveEmbedSend(o, outcome, saved))

InitLive == InitTracking("unsettled")
SpecLive == InitLive /\ [][NextLive]_vars /\ Fairness

-----------------------------------------------------------------------------
(* scrape_aicade_games alone, on responses of every shape.                 *)

Missing == [t |-> "missing"]
TitleValues == {Missing, None, JStr(""), JStr("Game 1"), JNum(5)}
PublishIdValues == {Missing, None, JStr(""), JStr("p1"), JNum(7)}

\* The record of an entry, with the keys game_title and publish_id present
\* or not.
GameData(title, publish_id) ==
    LET keys == {"cover_image"}
                \cup (IF title = Missing THEN {} ELSE {"game_title"})
                \cup (IF publish_id = Missing THEN {} ELSE {"publish_id"})
    IN  JObj([k \in keys |-> CASE k = "game_title" -> title
                               [] k = "publish_id" -> publish_id
                               [] OTHER -> None])

\* The entries a list can hold: not an object, an object without "data",
\* a "data" that is no object, and records with each title and publish_id.
EntryShapes ==
    {None, JNum(7), JStr("data"), JList(<<>>),
     JObj([id |-> JNum(1)]),
     JObj([data |-> None]),
     JObj([data |-> JStr("p1")]),
     JObj([data |-> JList(<<>>)])}
    \cup {JObj([data |-> GameData(t, p)]) : t \in TitleValues, p \in PublishIdValues}

EntryLists == UNION {[1..n -> EntryShapes] : n \in 0..MaxEntries}

\* The bodies: not an object, no "data", a "data" that is no object, no
\* nested "data", a nested "data" that is no list, and every list.
Bodies ==
    {None, JNum(7), JStr("data"), JStr("oops"), JList(<<JStr("data")>>),
     JObj([error |-> JStr("oops")]),
     JObj([data |-> None]),
     JObj([data |-> JStr("data")]),
     JObj([data |-> JList(<<>>)]),
     JObj([data |-> JObj([total |-> JNum(1)])]),
     JObj([data |-> JObj([data |-> None])]),
     JObj([data |-> JObj([data |-> JObj([id |-> JNum(1)])])])}
    \cup {JObj([data |-> JObj([data |-> JList(q)])]) : q \in EntryLists}

ScrapeInputs ==
    {[status |-> "RequestException"], [status |-> "JSONDecodeError"]}
    \cup {[status |-> "ok", body |-> b] : b \in Bodies}

InitScrape ==
    /\ api_response \in ScrapeInputs
    /\ scraped = Unused
    /\ track = "none"
    /\ env = [DISCORD_TOKEN |-> TRUE, CHANNEL_ID |-> TRUE, GAMER_ROLE_ID |-> TRUE]
    /\ bot = "init"
    /\ task = "none"
    /\ run = [o \in Owners |-> Idle]
    /\ cmd = NoCmd
    /\ file = Absent
    /\ cyc = NoCycle
    /\ announced = {}
    /\ twice = {}
    /\ retry = NoRetry
    /\ prev = NoPrev

\* line 113: the call of scrape_aicade_games.
Scrape ==
    /\ scraped = Unused
    /\ scraped' = scrape_aicade_games(api_response)
    /\ UNCHANGED <<env, bot, task, run, cmd, file, cyc, announced, twice,
                   retry, prev, track, api_response>>

SpecScrape == InitScrape /\ [][Scrape]_vars

-----------------------------------------------------------------------------
(* The properties.                                                         *)

\* The URLs whose embed send returned, and whose embed send raised, in the
\* call c of check_for_new_games.
OkSent(c) == {c.sends[i].url : i \in {j \in 1..Len(c.sends) : c.sends[j].ok}}
NotSent(c) == {c.sends[i].url : i \in {j \in 1..Len(c.sends) : ~c.sends[j].ok}}

\* Every URL some seen set holds: the file's and each call's in memory.
Committed == FileUrls(file) \cup UNION {run[o].seen_games_urls : o \in Owners}

\* The calls of check_for_new_games in progress (suspended at a send).
InFlight == {o \in Owners : run[o].pc # "none"}

\* The position of the URL u in the fetched listing q.
Pos(u, q) == CHOOSE i \in 1..Len(q) : q[i] = u

\* C1: at most once. Over all cycles and restarts through which the file
\* is not left damaged, no URL has its embed delivered to the channel twice.
C1_AtMostOnce == twice = {}

\* C2: retry on failure. A URL that was absent from the file when its cycle
\* began and whose embed send raised is in no seen set afterwards, neither
\* the file's nor a call's, until it is delivered; and the next call that
\* fetches it detects it as new again.
C2_RetryOnFailure ==
    /\ retry.pending \cap Committed = {}
    /\ cyc.status \in {"running", "done"} => retry.owed \subseteq Range(cyc.detected)

\* C2 witness: a URL whose send raised in an earlier cycle was fetched
\* again and is among the new games of the call in progress.
C2_Redetected ==
    /\ cyc.status = "running"
    /\ retry.owed # {}
    /\ retry.owed \subseteq Range(cyc.detected)

C4_MentionBestEffort ==
    (cyc.status = "done" /\ cyc.mention \in {"Forbidden", "HTTPException"})
        => Len(cyc.sends) = Len(cyc.detected)

\* C5: ordering. The embeds are attempted from the last fetched listing
\* position to the first: each attempted URL is fetched and was not in the
\* loaded seen set, a later attempt has an earlier listing position, no
\* unseen URL of a later position is passed over, and a call that ended
\* past the mention attempted every unseen URL.
C5_Ordering ==
    LET games == cyc.games
        attempt == [i \in 1..Len(cyc.sends) |-> cyc.sends[i].url]
        unseen == Range(games) \ cyc.loaded
    IN  /\ \A i \in 1..Len(attempt) : attempt[i] \in unseen
        /\ \A i, j \in 1..Len(attempt) :
              i < j => Pos(attempt[i], games) > Pos(attempt[j], games)
        /\ \A i \in 1..Len(attempt) : \A v \in unseen :
              Pos(v, games) > Pos(attempt[i], games)
                  => \E j \in 1..(i - 1) : attempt[j] = v
        /\ (cyc.status = "done" /\ cyc.mention \in {"ok", "HTTPException"})
              => Range(attempt) = unseen

\* C5 witness: a call ended after attempting two embeds, the second listed
\* first and the first listed second.
C5_TwoInReverse ==
    /\ cyc.status = "done"
    /\ Len(cyc.games) >= 2
    /\ Len(cyc.sends) = 2
    /\ cyc.sends[1].url = cyc.games[2]
    /\ cyc.sends[2].url = cyc.games[1]

\* The call in progress or just ended fetched the same URLs as the
\* previous call, which ran to its end on a fetched listing.
Repeat ==
    /\ cyc.status \in {"running", "done", "killed"}
    /\ prev.valid
    /\ cyc.fetch = "ok"
    /\ Range(cyc.games) = prev.games

\* C6: idempotence. A second call against an unchanged catalog delivers no
\* message, neither mention nor embed.
C6_Idempotence ==
    Repeat => cyc.mention # "ok" /\ OkSent(cyc) = {}

\* C7: commit only after confirmed publish. Every step that adds a URL to
\* a seen set, in memory or in the file, adds only URLs whose embed send
\* has returned in the call in progress.
C7_CommitAfterPublish ==
    [][(Committed' \ Committed) \subseteq OkSent(cyc')]_vars

\* C7 witness: a call ended with one embed delivered and in the file and
\* another embed failed and not in the file.
C7_OnlyDeliveredSaved ==
    /\ cyc.status = "done"
    /\ OkSent(cyc) # {}
    /\ OkSent(cyc) \subseteq FileUrls(file)
    /\ NotSent(cyc) # {}
    /\ NotSent(cyc) \cap FileUrls(file) = {}

\* C8: cycle containment. No fetch or publish error ends the timer's
\* task.
C8_Containment == task # "failed"

\* A call whose fetch failed, or returned a listing with no game.
FetchFailedOrEmpty(c) ==
    \/ c.fetch \in {"RequestException", "JSONDecodeError"}
    \/ c.fetch = "ok" /\ c.status # "raised" /\ c.games = <<>>

\* C9: a timer's call whose fetch fails or yields no game ends in the step
\* it begins, has sent nothing and leaves the file as it was.
C9_NoOp ==
    [][(Begins /\ cyc'.trigger = "timer" /\ FetchFailedOrEmpty(cyc'))
          => /\ cyc'.status = "done"
             /\ task' = "returned"
             /\ cyc'.mention = "none"
             /\ cyc'.sends = <<>>
             /\ run' = run
             /\ file' = file]_vars

\* C9 witness: a call whose fetch raised RequestException has ended, with
\* games committed by an earlier call still in the file.
C9_FailedFetchEnded ==
    /\ cyc.status = "done"
    /\ cyc.fetch = "RequestException"
    /\ cyc.sends = <<>>
    /\ FileUrls(file) # {}

\* C10: defensive catalog validation. On every response scrape_aicade_games
\* raises nothing, and each game it returns has a text title and the URL of
\* a text publish_id.
C10_DefensiveValidation ==
    scraped # Unused
        => /\ scraped.raised = "none"
           /\ \A i \in 1..Len(scraped.games) :
                 /\ scraped.games[i].title = JStr("Game 1")
                 /\ scraped.games[i].url = full_url(JStr("p1"))

\* C11: readiness ordering. The loop leaves its start-up, and a call of
\* check_for_new_games begins or is in progress, only in a process whose
\* gateway connection has reported ready.
C11_ReadyFirst ==
    (\/ task \notin {"none", "before_loop"}
     \/ cyc.status \in {"running", "done", "raised"}
     \/ InFlight # {})
        => bot = "ready"

\* C11 witness: a call of the timer is in progress, the bot being ready.
C11_TickedWhenReady ==
    /\ bot = "ready"
    /\ cyc.trigger = "timer"
    /\ cyc.status = "running"
    /\ task = "running"

\* C12: atomic overwrite. The file never holds an empty or partial list:
\* it holds the complete list before a save or the complete list after.
C12_AtomicOverwrite == file.st # "partial"

\* Whether each of the three variables of lines 18-20 is set and not zero.
Configured == env.DISCORD_TOKEN /\ env.CHANNEL_ID /\ env.GAMER_ROLE_ID

\* C13: a configuration error is fatal to start-up. With the token, the
\* channel id or the role id missing the bot is never connected, the loop
\* is never started, no call of check_for_new_games begins and the file is
\* never written.
C13_ConfigFatal ==
    ~Configured
        => /\ bot \in {"init", "refused"}
           /\ task = "none"
           /\ cyc.status = "none"
           /\ InFlight = {}
           /\ cmd = NoCmd
           /\ file = Absent

\* C13 witness: run_bot has returned without starting the bot, the token
\* being set and the channel id missing.
C13_Refused ==
    /\ bot = "refused"
    /\ env.DISCORD_TOKEN
    /\ ~env.CHANNEL_ID

\* The publication a URL belongs to.
PidOf(u) == CHOOSE i \in Pids : Url(i) = u

\* The inline-data URIs of the model.
InlineData == {"data:image/png;base64,AAAA"}

\* An image reference that is absent, the token "null" or an inline-data
\* URI.
InvalidRef(ref) ==
    \/ ref.t = "null"
    \/ ref.t = "str" /\ ref.v \in ({"null"} \cup InlineData)

\* C14: media reference validity. No embed carries an absent, "null" or
\* inline-data reference as its image; with no valid animated reference,
\* an invalid cover_image gives the placeholder; a valid cover_image is
\* never replaced by the placeholder.
C14_MediaValidity ==
    \A k \in 1..Len(cyc.sends) :
        LET m == cyc.sends[k]
            static == CoverImage(PidOf(m.url))
            animated == GifUrl(PidOf(m.url))
        IN  /\ ~(m.image.kind = "image" /\ InvalidRef(m.image.url))
            /\ (InvalidRef(animated) /\ InvalidRef(static))
                  => m.image = Placeholder
            /\ ~InvalidRef(static) => m.image # Placeholder

\* C15: media preference order. The embed of a game shows its gif_url when
\* that is valid, else its cover_image when that is valid, else the
\* placeholder. (The program downloads nothing, so no download fails.)
C15_MediaPreference ==
    \A k \in 1..Len(cyc.sends) :
        LET m == cyc.sends[k]
            static == CoverImage(PidOf(m.url))
            animated == GifUrl(PidOf(m.url))
        IN  /\ ~InvalidRef(animated) => m.image.url = animated
            /\ (InvalidRef(animated) /\ ~InvalidRef(static))
                  => m.image = [kind |-> "image", url |-> static]
            /\ (InvalidRef(animated) /\ InvalidRef(static))
                  => m.image = Placeholder

\* C16: durable commit. When a call of check_for_new_games has ended, the
\* file holds the URL of every embed it delivered, whatever the write did.
C16_DurableCommit ==
    cyc.status = "done" => OkSent(cyc) \subseteq FileUrls(file)

\* C17: per-item failure isolation. A call that got to its embeds and
\* ended has attempted the embed of every new game, in the order detected,
\* whichever of them failed; the set it handed to save_seen_games is the
\* loaded set plus the URL of each embed delivered, with no URL of a failed
\* one; and that set is the file when the write succeeded.
C17_FailureIsolation ==
    (cyc.status = "done" /\ cyc.sends # <<>>)
        => /\ [k \in 1..Len(cyc.sends) |-> cyc.sends[k].url] = cyc.detected
           /\ cyc.saved = cyc.loaded \cup OkSent(cyc)
           /\ NotSent(cyc) \cap cyc.saved = {}
           /\ cyc.save = "ok" => FileUrls(file) = cyc.saved

\* C17 witness: of two new games the first embed failed, the second was
\* delivered all the same, and the file written holds the second only.
C17_SecondSentAfterFailure ==
    /\ cyc.status = "done"
    /\ Len(cyc.sends) = 2
    /\ ~cyc.sends[1].ok
    /\ cyc.sends[2].ok
    /\ cyc.save = "ok"
    /\ cyc.sends[2].url \in FileUrls(file)
    /\ cyc.sends[1].url \notin FileUrls(file)

\* C19: the seen set grows monotonically. When a call has ended, the file
\* holds every URL it held when the call began, also when the load or the
\* save hit an error.
C19_SeenMonotone ==
    cyc.status = "done" => cyc.persisted \subseteq FileUrls(file)

\* C20: mention discipline. A call attempts a mention only as its first
\* message, so at most one and before every embed; it attempts an embed
\* only after the mention; it sends anything only when some fetched URL
\* was not in the loaded seen set; and when none was, it sends nothing and
\* does not call save_seen_games.
C20_MentionDiscipline ==
    LET unseen == Range(cyc.games) \ cyc.loaded
    IN  /\ \A k \in 1..Len(cyc.log) : cyc.log[k] = "mention" <=> k = 1
        /\ cyc.log # <<>> => unseen # {}
        /\ cyc.mention # "none" => unseen # {}
        /\ (cyc.status # "none" /\ unseen = {})
              => /\ cyc.log = <<>>
                 /\ cyc.mention = "none"
                 /\ cyc.save = "none"
                 /\ FileUrls(file) = cyc.persisted

\* C20 witness: a call with two new games has ended after one mention
\* followed by two embeds.
C20_MentionThenEmbeds ==
    /\ cyc.status = "done"
    /\ cyc.mention = "ok"
    /\ cyc.log = <<"mention", "embed", "embed">>

\* The environment has settled, the loop is alive, and the URL of
\* publication 1, which every fetch lists from now on, is not in the file.
Waiting ==
    /\ track = "settled"
    /\ task \in {"before_loop", "sleeping", "running", "returned"}
    /\ Url(1) \notin FileUrls(file)

\* C18: eventual announcement. Once the environment has settled, the loop
\* ticking, a game that stays in the catalog and whose URL is not in the
\* seen file is eventually announced: its embed is delivered, whether or
\* not an earlier send of it failed.
C18_EventuallyAnnounced == Waiting ~> (Url(1) \in OkSent(cyc))

\* C18 witness: settled, the embed of publication 1 has been delivered by a
\* call that found the URL missing from the file it loaded.
C18_AnnouncedOnceSettled ==
    /\ track = "settled"
    /\ Url(1) \in OkSent(cyc)
    /\ Url(1) \notin cyc.persisted
    /\ cyc.status = "done"

=============================================================================
